---- MODULE Spec2Model ----
(***************************************************************************)
(* Model of main.py: the conversation / message handlers over the         *)
(* "conversations" and "messages" tables, the delayed background task and *)
(* the /events relay built on the process-wide asyncio.Queue.             *)
(*                                                                         *)
(* Every database call in main.py is synchronous (.execute() without      *)
(* await), so a handler runs without interleaving between two awaits:     *)
(* chat, create, get, update and delete are one step each; the background *)
(* task is one step after its sleep; the /events generator has one step   *)
(* per await (is_disconnected, queue.get).                                *)
(***************************************************************************)
EXTENDS Integers, Sequences, FiniteSets, TLC

\* ---------------------------------------------------------------- bounds
MaxTime  == 10  \* no clock reading exceeds MaxTime
Quantum  == 5   \* the clock is observed in steps of Quantum time units
MaxConvs == 1   \* conversations ever created
MaxMsgs  == 3   \* messages ever inserted
MaxTasks == 2   \* background tasks ever scheduled
NumSubs  == 2   \* /events connections that can be open at once
MaxOffset == 1  \* offsets tried by the message listing
MaxLimit == 2   \* small limits tried by the message listing

\* ------------------------------------------------------- program constants
Delay        == 5    \* asyncio.sleep(5)
DefaultLimit == 50   \* limit: int = Query(50)

Subs == 1..NumSubs

NoneId   == -1       \* conversation_id = None
BogusId  == 0        \* an id no conversation ever had
NoTitle  == "<None>" \* title = None

\* Message texts are sequences of tokens; TriggerWord stands for the Korean
\* word the chat handler looks for, the other literals for the fixed replies.
TriggerWord == "DELAY"
Contents    == {<<"hello">>, <<"please", "DELAY">>}
Processing  == <<"PROCESSING">>
SuccessMsg  == <<"DONE">>

\* "..." in request.content
HasTrigger(content) == \E i \in DOMAIN content : content[i] = TriggerWord

\* f"Echo: {request.content} (Supabase)"
EchoOf(content) == <<"Echo:">> \o content \o <<"(Supabase)">>

VARIABLES
    now,            \* the wall clock read by get_utc_now()
    conversations,  \* table conversations: id -> row
    nextConvId,     \* next id the table hands out
    messages,       \* table messages, in insertion order
    nextMsgId,      \* next id the table hands out
    tasks,          \* background tasks added by chat
    event_queue,    \* the asyncio.Queue
    sub,            \* per /events connection: generator position, peer state
    published,      \* history: every event_queue.put, in order
    log,            \* history: every event_queue.get that returned, in order
    last            \* the HTTP response of the step just taken (or NoCall)

vars == <<now, conversations, nextConvId, messages, nextMsgId, tasks,
          event_queue, sub, published, log, last>>

NoCall == [op |-> "none"]

Min(a, b) == IF a < b THEN a ELSE b

\* get_utc_now(): a reading taken after reading t is t or later; successive
\* readings inside one handler may coincide (clock resolution) or advance.
LaterReadings(t) == {u \in {t, t + Quantum} : u <= MaxTime}

\* ------------------------------------------------------------ table calls
\* supabase.table("messages").insert({...}).execute()
InsertMessage(msgs, id, cid, role, content, t) ==
    Append(msgs, [id |-> id, conversation_id |-> cid, role |-> role,
                  content |-> content, created_at |-> t])

\* mutant: the timestamp lands in the wrong column
TouchConversationCreatedAt(convs, cid, t) ==
    IF cid \in DOMAIN convs
    THEN [convs EXCEPT ![cid].created_at = t]
    ELSE convs

\* supabase.table("conversations").update({"updated_at": t}).eq("id", cid)
TouchConversation(convs, cid, t) ==
    IF cid \in DOMAIN convs
    THEN [convs EXCEPT ![cid].updated_at = t]
    ELSE convs

\* Deleting a conversation row removes the messages that reference it.
RECURSIVE CascadeMessages(_, _)
CascadeMessages(msgs, cid) ==
    IF msgs = <<>> THEN <<>>
    ELSE IF Head(msgs).conversation_id = cid
         THEN CascadeMessages(Tail(msgs), cid)
         ELSE <<Head(msgs)>> \o CascadeMessages(Tail(msgs), cid)

\* .eq("conversation_id", cid)
SelectMessages(msgs, cid) ==
    {msgs[i] : i \in {j \in DOMAIN msgs : msgs[j].conversation_id = cid}}

\* .order("created_at", desc=False): every order of the rows that is
\* ascending in created_at (rows with equal created_at come in any order).
RECURSIVE OrderByCreatedAt(_)
OrderByCreatedAt(rows) ==
    IF rows = {} THEN {<<>>}
    ELSE UNION {{<<m>> \o rest : rest \in OrderByCreatedAt(rows \ {m})} :
                m \in {x \in rows : \A y \in rows : x.created_at <= y.created_at}}

\* mutant: the upper end taken as exclusive
RangeExclusive(rows, first, lastIx) ==
    SubSeq(rows, first + 1, Min(lastIx, Len(rows)))

\* .range(first, lastIx): rows first..lastIx (0-based, inclusive)
Range(rows, first, lastIx) ==
    SubSeq(rows, first + 1, Min(lastIx + 1, Len(rows)))

\* --------------------------------------------------------- asyncio.Queue
\* event_queue.put(ev) on the unbounded queue: ev goes to the tail.
QueuePutFirst(q, ev) == <<ev>> \o q        \* mutant: a stack
QueuePut(q, ev) == Append(q, ev)

\* What event_queue.get() returns: the head.
QueueFront(q) == Head(q)

\* The queue once get() has returned.
QueueRestPeek(q) == q                     \* mutant: get() leaves the event
QueueRest(q) == Tail(q)

\* ------------------------------------------------------------------ Init
Init ==
    /\ now = 0
    /\ conversations = <<>>
    /\ nextConvId = 1
    /\ messages = <<>>
    /\ nextMsgId = 1
    /\ tasks = <<>>
    /\ event_queue = <<>>
    /\ sub = [s \in Subs |-> [pc |-> "idle", connected |-> FALSE]]
    /\ published = <<>>
    /\ log = <<>>
    /\ last = NoCall

\* ----------------------------------------------------------------- clock
Tick ==
    /\ now + Quantum <= MaxTime
    /\ now' = now + Quantum
    /\ last' = NoCall
    /\ UNCHANGED <<conversations, nextConvId, messages, nextMsgId, tasks,
                   event_queue, sub, published, log>>

\* ------------------------------------------------------------- POST /chat
ChatResponseMsg(content) ==
    IF HasTrigger(content) THEN Processing ELSE EchoOf(content)

\* fault = 0: every write succeeds; fault = k: the k-th write raises and the
\* except clause swallows it.
ChatWrites(cid, content, fault, t1, t2, t3) ==
    LET m1 == InsertMessage(messages, nextMsgId, cid, "user", content, t1)
        m2 == InsertMessage(m1, nextMsgId + 1, cid, "assistant",
                            ChatResponseMsg(content), t2)
    IN  /\ messages' = CASE fault = 1 -> messages
                         [] fault = 2 -> m1
                         [] OTHER     -> m2
        /\ nextMsgId' = CASE fault = 1 -> nextMsgId
                          [] fault = 2 -> nextMsgId + 1
                          [] OTHER     -> nextMsgId + 2
        /\ conversations' = IF fault = 0
                            THEN TouchConversation(conversations, cid, t3)
                            ELSE conversations

\* add_task comes before the writes, so the task is scheduled whatever the
\* writes do; it starts once the response is out, i.e. after the last
\* clock reading of the handler.
Chat(cid, content, fault) ==
    \E t2 \in LaterReadings(now) : \E t3 \in LaterReadings(t2) :
        \* readings the handler never takes do not move the clock
        /\ (cid = NoneId \/ fault = 1) => t2 = now
        /\ (cid = NoneId \/ fault \in {1, 2}) => t3 = t2
        /\ IF HasTrigger(content) /\ cid # NoneId
           THEN /\ Len(tasks) < MaxTasks
                /\ tasks' = Append(tasks,
                        [conversation_id |-> cid,
                         due |-> t3 + Delay,
                         pc |-> "sleeping",
                         valid |-> cid \in DOMAIN conversations])
           ELSE tasks' = tasks
        /\ IF cid # NoneId
           THEN /\ (CASE fault = 1 -> nextMsgId - 1
                       [] fault = 2 -> nextMsgId
                       [] OTHER     -> nextMsgId + 1) <= MaxMsgs
                /\ ChatWrites(cid, content, fault, now, t2, t3)
           ELSE /\ fault = 0
                /\ UNCHANGED <<messages, nextMsgId, conversations>>
        /\ now' = t3
        /\ last' = [op |-> "chat", status |-> 200, conversation_id |-> cid,
                    type |-> "text", message |-> ChatResponseMsg(content)]
        /\ UNCHANGED <<nextConvId, event_queue, sub, published, log>>

\* ------------------------------------------------ perform_background_task
\* The event the task puts on the queue.
DoneEvent(cid, t) ==
    [conversation_id |-> cid, status |-> "done", message |-> SuccessMsg,
     timestamp |-> t]

NoActiveSubscriber == \A s \in Subs : sub[s].pc \in {"idle", "terminated"}

Waiting == {s \in Subs : sub[s].pc = "get"}

\* mutant: the event is put twice
PublishTwice(k, ev) ==
    /\ event_queue' = QueuePut(QueuePut(event_queue, ev), ev)
    /\ published' = published \o
            << [ev |-> ev, task |-> k, idle |-> NoActiveSubscriber,
                waiting |-> Waiting],
               [ev |-> ev, task |-> k, idle |-> NoActiveSubscriber,
                waiting |-> Waiting] >>

\* await event_queue.put(ev); `published` remembers which task put it and
\* which generators were running or blocked in get() at that moment.
Publish(k, ev) ==
    /\ event_queue' = QueuePut(event_queue, ev)
    /\ published' = Append(published,
                           [ev |-> ev, task |-> k, idle |-> NoActiveSubscriber,
                            waiting |-> Waiting])

\* fault = 0: both writes succeed; fault = 1: the insert raises; fault = 2:
\* the insert succeeds and the update raises. The put is the last statement
\* of the try block: it runs only if neither write raised.
TaskInserts(fault)  == fault # 1
TaskTouches(fault)  == fault = 0
TaskPublishesAlways(fault) == TRUE   \* mutant: the put sits after the try
\* mutant: the put sits between the insert and the update
TaskPublishesAfterInsert(fault) == fault # 1
TaskPublishes(fault) == fault = 0

PerformBackgroundTask(k, fault) ==
    LET cid == tasks[k].conversation_id IN
    /\ tasks[k].pc = "sleeping"
    /\ now >= tasks[k].due
    /\ \E t2 \in LaterReadings(now) : \E t3 \in LaterReadings(t2) :
        /\ IF TaskInserts(fault)
           THEN /\ nextMsgId <= MaxMsgs
                /\ messages' = InsertMessage(messages, nextMsgId, cid,
                                             "assistant", SuccessMsg, now)
                /\ nextMsgId' = nextMsgId + 1
           ELSE UNCHANGED <<messages, nextMsgId>>
        /\ IF TaskTouches(fault)
           THEN conversations' = TouchConversation(conversations, cid, t2)
           ELSE UNCHANGED conversations
        /\ IF TaskPublishes(fault)
           THEN Publish(k, DoneEvent(cid, t3))
           ELSE UNCHANGED <<event_queue, published>>
        \* the clock has moved as far as the last reading taken
        /\ now' = CASE fault = 1 -> now
                    [] fault = 2 -> t2
                    [] OTHER     -> t3
        /\ fault = 1 => t2 = now
        /\ fault # 0 => t3 = t2
    /\ tasks' = [tasks EXCEPT ![k].pc = IF fault = 0 THEN "done" ELSE "failed"]
    /\ last' = NoCall
    /\ UNCHANGED <<nextConvId, sub, log>>

\* ------------------------------------------------------------ GET /events
\* mutant: every connection starts from an empty queue of its own
ConnectFresh(s) ==
    /\ sub[s].pc \in {"idle", "terminated"}
    /\ sub' = [sub EXCEPT ![s] = [pc |-> "check", connected |-> TRUE]]
    /\ event_queue' = <<>>
    /\ last' = [op |-> "events", status |-> 200, subscriber |-> s]
    /\ UNCHANGED <<now, conversations, nextConvId, messages, nextMsgId, tasks,
                   published, log>>

\* GET /events: EventSourceResponse starts event_generator().
Connect(s) ==
    /\ sub[s].pc \in {"idle", "terminated"}
    /\ sub' = [sub EXCEPT ![s] = [pc |-> "check", connected |-> TRUE]]
    /\ last' = [op |-> "events", status |-> 200, subscriber |-> s]
    /\ UNCHANGED <<now, conversations, nextConvId, messages, nextMsgId, tasks,
                   event_queue, published, log>>

\* The peer goes away; the server side has not looked yet.
PeerDisconnect(s) ==
    /\ sub[s].pc \in {"check", "get"}
    /\ sub[s].connected
    /\ sub' = [sub EXCEPT ![s].connected = FALSE]
    /\ last' = NoCall
    /\ UNCHANGED <<now, conversations, nextConvId, messages, nextMsgId, tasks,
                   event_queue, published, log>>

\* mutant: the loop never looks at the peer
CheckDisconnectedNever(s) ==
    /\ sub[s].pc = "check"
    /\ sub' = [sub EXCEPT ![s].pc = "get"]
    /\ last' = NoCall
    /\ UNCHANGED <<now, conversations, nextConvId, messages, nextMsgId, tasks,
                   event_queue, published, log>>

\* if await request.is_disconnected(): break
CheckDisconnected(s) ==
    /\ sub[s].pc = "check"
    /\ sub' = [sub EXCEPT ![s].pc = IF sub[s].connected THEN "get"
                                    ELSE "terminated"]
    /\ last' = NoCall
    /\ UNCHANGED <<now, conversations, nextConvId, messages, nextMsgId, tasks,
                   event_queue, published, log>>

\* data = await event_queue.get(); yield ...; event_queue.task_done()
GetEvent(s) ==
    /\ sub[s].pc = "get"
    /\ event_queue # <<>>
    /\ event_queue' = QueueRest(event_queue)
    /\ log' = Append(log, [sub |-> s, ev |-> QueueFront(event_queue),
                           live |-> sub[s].connected])
    /\ sub' = [sub EXCEPT ![s].pc = "check"]
    /\ last' = NoCall
    /\ UNCHANGED <<now, conversations, nextConvId, messages, nextMsgId, tasks,
                   published>>

\* except asyncio.CancelledError: break -- the pending get() is cancelled
\* once the transport has reported the disconnect.
Cancel(s) ==
    /\ sub[s].pc = "get"
    /\ ~sub[s].connected
    /\ sub' = [sub EXCEPT ![s].pc = "terminated"]
    /\ last' = NoCall
    /\ UNCHANGED <<now, conversations, nextConvId, messages, nextMsgId, tasks,
                   event_queue, published, log>>

\* ----------------------------------------------------- POST /conversations
\* The row create_conversation inserts; t1 and t2 are its two clock readings.
NewConversation(title, t1, t2) ==
    [title |-> IF title = NoTitle THEN "New Chat" ELSE title,
     is_pinned |-> FALSE,
     created_at |-> t1,
     updated_at |-> t2]

\* ok = FALSE: the insert returned no row (res.data empty) and the handler
\* raises 500.
CreateConversation(title, ok) ==
    \E t2 \in LaterReadings(now) :
        /\ nextConvId <= MaxConvs
        /\ now' = t2
        /\ IF ok
           THEN /\ conversations' =
                    [c \in DOMAIN conversations \cup {nextConvId} |->
                        IF c = nextConvId THEN NewConversation(title, now, t2)
                        ELSE conversations[c]]
                /\ nextConvId' = nextConvId + 1
                /\ last' = [op |-> "create", status |-> 201,
                            conversation_id |-> nextConvId]
           ELSE /\ UNCHANGED <<conversations, nextConvId>>
                /\ last' = [op |-> "create", status |-> 500,
                            conversation_id |-> NoneId]
        /\ UNCHANGED <<messages, nextMsgId, tasks, event_queue, sub,
                       published, log>>

\* ------------------------------------------ GET /conversations/{id}
\* The rows msg_res.data can hold: select, order, range.
ListMessages(msgs, cid, limit, offset) ==
    {Range(rows, offset, offset + limit - 1) :
        rows \in OrderByCreatedAt(SelectMessages(msgs, cid))}

\* The handler is read-only: `last` keeps the status and how many rows the
\* response carried; the rows themselves are ListMessages(...).
GetConversationDetail(cid, limit, offset) ==
    /\ IF cid \notin DOMAIN conversations
       THEN last' = [op |-> "get", status |-> 404, conversation_id |-> cid,
                     count |-> 0]
       ELSE \E rows \in ListMessages(messages, cid, limit, offset) :
                last' = [op |-> "get", status |-> 200, conversation_id |-> cid,
                         count |-> Len(rows)]
    /\ UNCHANGED <<now, conversations, nextConvId, messages, nextMsgId, tasks,
                   event_queue, sub, published, log>>

\* ---------------------------------------- PATCH /conversations/{id}
UpdateData(row, title, pin, t) ==
    [row EXCEPT !.updated_at = t,
                !.title = IF title = NoTitle THEN @ ELSE title,
                !.is_pinned = CASE pin = "True"  -> TRUE
                                [] pin = "False" -> FALSE
                                [] OTHER         -> @]

UpdateConversation(cid, title, pin) ==
    /\ IF cid \in DOMAIN conversations
       THEN /\ conversations' = [conversations EXCEPT
                                   ![cid] = UpdateData(@, title, pin, now)]
            /\ last' = [op |-> "update", status |-> 200,
                        conversation_id |-> cid]
       ELSE /\ conversations' = conversations
            /\ last' = [op |-> "update", status |-> 404,
                        conversation_id |-> cid]
    /\ UNCHANGED <<now, nextConvId, messages, nextMsgId, tasks, event_queue,
                   sub, published, log>>

\* ----------------------------------- POST /conversations/{id}/delete
DeleteFoundAlways(cid) == TRUE        \* mutant: res.data never looked at

\* res.data of the delete: the deleted rows; empty when no row has that id.
DeleteFound(cid) == cid \in DOMAIN conversations

DeleteConversation(cid) ==
    /\ IF DeleteFound(cid)
       THEN /\ conversations' = [c \in DOMAIN conversations \ {cid} |->
                                    conversations[c]]
            /\ messages' = CascadeMessages(messages, cid)
            /\ last' = [op |-> "delete", status |-> 204,
                        conversation_id |-> cid]
       ELSE /\ UNCHANGED <<conversations, messages>>
            /\ last' = [op |-> "delete", status |-> 404,
                        conversation_id |-> cid]
    /\ UNCHANGED <<now, nextConvId, nextMsgId, tasks, event_queue, sub,
                   published, log>>

\* ------------------------------------------------------------------ Next
\* Ids the table has handed out (their conversations may be deleted since).
IssuedIds == 1..(nextConvId - 1)

\* Ids a client can put in a path: one that never existed, or an issued one.
KnownIds == {BogusId} \cup IssuedIds

\* The partial updates tried: an empty one, and one that sets both fields.
UpdateRequests == {[title |-> NoTitle, is_pinned |-> "None"],
                   [title |-> "Plan", is_pinned |-> "True"]}

\* The listings requested: the defaults, one row, and the largest small page.
ListRequests == {[limit |-> DefaultLimit, offset |-> 0],
                 [limit |-> 1, offset |-> 0],
                 [limit |-> MaxLimit, offset |-> MaxOffset]}

\* The request handlers over the two tables.
StoreNext ==
    \/ \E cid \in KnownIds, req \in ListRequests :
          GetConversationDetail(cid, req.limit, req.offset)
    \/ \E cid \in KnownIds, req \in UpdateRequests :
          UpdateConversation(cid, req.title, req.is_pinned)
    \/ \E cid \in KnownIds : DeleteConversation(cid)

\* The tables, the chat handler and the background task.
ProducerNext ==
    \/ Tick
    \/ \E title \in {NoTitle}, ok \in BOOLEAN :
          CreateConversation(title, ok)
    \/ \E cid \in IssuedIds \cup {NoneId}, content \in Contents,
          fault \in 0..3 : Chat(cid, content, fault)
    \/ \E k \in DOMAIN tasks, fault \in 0..2 : PerformBackgroundTask(k, fault)

\* The producer side of the relay alone: chats that carry the trigger and a
\* conversation id (no other chat schedules a task) and the tasks they start.
RelayProducerNext ==
    \/ Tick
    \/ \E ok \in BOOLEAN : CreateConversation(NoTitle, ok)
    \/ \E cid \in IssuedIds, content \in {c \in Contents : HasTrigger(c)},
          fault \in 0..1 : Chat(cid, content, fault)
    \/ \E k \in DOMAIN tasks, fault \in 0..2 : PerformBackgroundTask(k, fault)

\* The consumer side of the relay: the /events connections.
ConsumerNext ==
    \/ \E s \in Subs : Connect(s)
    \/ \E s \in Subs : PeerDisconnect(s)
    \/ \E s \in Subs : CheckDisconnected(s)
    \/ \E s \in Subs : GetEvent(s)
    \/ \E s \in Subs : Cancel(s)

Next == StoreNext \/ ProducerNext \/ ConsumerNext

\* The whole program.
Spec == Init /\ [][Next]_vars

\* The tables, the chat handler and the background task, with no /events
\* connection open (no consumer step reads or writes a table).
StoreSpec == Init /\ [][StoreNext \/ ProducerNext]_vars

\* The producers and the delete handler, with chats on every id a client can
\* send: chat looks no id up, so an id that names no conversation schedules
\* a task like any other. A chat's writes all succeed or the first raises.
TaskProducerNext ==
    \/ Tick
    \/ \E ok \in BOOLEAN : CreateConversation(NoTitle, ok)
    \/ \E cid \in KnownIds \cup {NoneId}, content \in Contents,
          fault \in 0..1 : Chat(cid, content, fault)
    \/ \E k \in DOMAIN tasks, fault \in 0..2 : PerformBackgroundTask(k, fault)
    \/ \E cid \in IssuedIds : DeleteConversation(cid)

TaskSpec == Init /\ [][TaskProducerNext]_vars

\* The relay: producers and consumers of event_queue (no step of StoreNext
\* reads or writes event_queue, tasks or sub).
RelaySpec == Init /\ [][RelayProducerNext \/ ConsumerNext]_vars

\* ================================================================ claims
\* The events of a history, without its bookkeeping fields.
Events(h) == [i \in DOMAIN h |-> h[i].ev]

\* The events generator s has yielded, in the order it yielded them.
RECURSIVE DeliveredIn(_, _)
DeliveredIn(h, s) ==
    IF h = <<>> THEN <<>>
    ELSE IF Head(h).sub = s
         THEN <<Head(h).ev>> \o DeliveredIn(Tail(h), s)
         ELSE DeliveredIn(Tail(h), s)

Delivered(s) == DeliveredIn(log, s)

IsPrefix(p, q) == Len(p) <= Len(q) /\ SubSeq(q, 1, Len(p)) = p

RECURSIVE SumOver(_, _)
SumOver(f(_), S) ==
    IF S = {} THEN 0
    ELSE LET x == CHOOSE y \in S : TRUE IN f(x) + SumOver(f, S \ {x})

\* ---------------------------------------------------------------- C1
\* C1: with a single subscriber consuming (no other generator has taken an
\* event), what it has been delivered is exactly the published sequence up
\* to what is still queued: same events, same order, none twice, none
\* skipped.
C1_SingleSubscriberInOrder ==
    \A s \in Subs :
        (\A i \in DOMAIN log : log[i].sub = s) =>
            /\ Delivered(s) = SubSeq(Events(published), 1, Len(Delivered(s)))
            /\ Len(Delivered(s)) + Len(event_queue) = Len(published)
            /\ event_queue = SubSeq(Events(published), Len(Delivered(s)) + 1,
                                    Len(published))

\* One subscriber alone has been delivered two different events.
C1_Witness ==
    /\ Len(log) = 2
    /\ \A i \in DOMAIN log : log[i].sub = 1 /\ log[i].live
    /\ log[1].ev # log[2].ev

\* ---------------------------------------------------------------- C2
\* An event published while no generator was running is either still queued
\* or has been handed to a generator, at the position of its publication.
C2_RetainedInv ==
    \A i \in DOMAIN published :
        published[i].idle =>
            IF i <= Len(log)
            THEN log[i].ev = published[i].ev
            ELSE /\ i - Len(log) \in DOMAIN event_queue
                 /\ event_queue[i - Len(log)] = published[i].ev

\* While no generator is running the queue only grows, at its tail.
C2_RetainedStep ==
    NoActiveSubscriber => IsPrefix(event_queue, event_queue')

\* C2: an event published while no subscriber is active (no generator is
\* running) is never lost: it stays queued, in publication order, until a
\* subscriber that connects later is handed it, in that same order.
C2_RetainedForNextSubscriber ==
    [](C2_RetainedInv) /\ [][C2_RetainedStep]_vars

\* Two events published with no subscriber have both reached the subscriber
\* that connected afterwards, in publication order.
C2_Witness ==
    /\ Len(published) = 2
    /\ published[1].idle /\ published[2].idle
    /\ published[1].ev # published[2].ev
    /\ Len(log) = 2
    /\ log[1].live /\ log[2].live

\* ---------------------------------------------------------------- C3
\* Every published event is in exactly one place: still queued, or taken by
\* exactly one generator.
C3_OnePlaceInv ==
    /\ Events(log) \o event_queue = Events(published)
    /\ LET n(s) == Len(Delivered(s))
       IN SumOver(n, Subs) + Len(event_queue) = Len(published)

\* A step that takes an event takes one, for one generator blocked in get(),
\* and leaves every other generator where it was, with what it had.
C3_OneTakerStep ==
    log' # log =>
        /\ Len(log') = Len(log) + 1
        /\ LET s == log'[Len(log')].sub
           IN /\ sub[s].pc = "get"
              /\ \A t \in Subs \ {s} : sub'[t] = sub[t]
              /\ \A t \in Subs \ {s} : Delivered(t)' = Delivered(t)

\* C3: with any number of concurrent subscribers every published event goes
\* to exactly one of them, never to two, and is never dropped from the queue
\* untaken; with two waiting and one publish, one receives it and the other
\* stays waiting.
C3_ExactlyOneSubscriber ==
    [](C3_OnePlaceInv) /\ [][C3_OneTakerStep]_vars

\* Both subscribers were blocked in get() when the only event was published;
\* one has it, the other is still blocked.
C3_Witness ==
    /\ Len(published) = 1
    /\ published[1].waiting = {1, 2}
    /\ Len(log) = 1
    /\ \E s \in Subs : \E t \in Subs \ {s} :
          /\ log[1].sub = s
          /\ sub[t].pc = "get" /\ sub[t].connected
          /\ Delivered(t) = <<>>

C6_AtHeadOfCycle ==
    \A s \in Subs :
        /\ (sub[s].pc = "check" /\ ~sub[s].connected) =>
              /\ sub'[s].pc \in {"check", "terminated"}
              /\ Delivered(s)' = Delivered(s)
        /\ (sub[s].pc = "get" /\ ~sub[s].connected) =>
              \/ sub'[s] = sub[s] /\ Delivered(s)' = Delivered(s)
              \/ sub'[s].pc = "terminated" /\ Delivered(s)' = Delivered(s)
              \/ sub'[s].pc = "check" /\ Len(Delivered(s)') = Len(Delivered(s)) + 1
        /\ sub[s].pc = "terminated" => Delivered(s)' = Delivered(s)

PublishedBy(k) == {i \in DOMAIN published : published[i].task = k}

\* C4 as stated: every task started by a triggered chat on an existing
\* conversation has, once it has run, put exactly one event on the relay.
C4_EveryTaskPublishesOnce ==
    \A k \in DOMAIN tasks :
        (tasks[k].valid /\ tasks[k].pc # "sleeping") =>
            Cardinality(PublishedBy(k)) = 1

\* The chat step: a triggered chat with a conversation id answers with the
\* processing message, schedules exactly one task due no earlier than Delay
\* after the request and publishes nothing itself; no other chat schedules a
\* task.
C4_ChatStep ==
    last'.op = "chat" =>
        /\ event_queue' = event_queue
        /\ IF last'.message = Processing /\ last'.conversation_id # NoneId
           THEN /\ Len(tasks') = Len(tasks) + 1
                /\ SubSeq(tasks', 1, Len(tasks)) = tasks
                /\ LET t == tasks'[Len(tasks')]
                   IN /\ t.conversation_id = last'.conversation_id
                      /\ t.pc = "sleeping"
                      /\ t.due >= now + Delay
           ELSE tasks' = tasks

\* The task step: a task that completes does so no earlier than its due
\* time, has appended the done message for its conversation and has put one
\* event for that conversation at the tail of the queue.
C4_TaskStep ==
    \A k \in DOMAIN tasks :
        (tasks[k].pc = "sleeping" /\ tasks'[k].pc = "done") =>
            /\ now >= tasks[k].due
            /\ Len(messages') = Len(messages) + 1
            /\ SubSeq(messages', 1, Len(messages)) = messages
            /\ LET m == messages'[Len(messages')]
               IN /\ m.conversation_id = tasks[k].conversation_id
                  /\ m.role = "assistant"
                  /\ m.content = SuccessMsg
            /\ Len(event_queue') = Len(event_queue) + 1
            /\ SubSeq(event_queue', 1, Len(event_queue)) = event_queue
            /\ LET e == event_queue'[Len(event_queue')]
               IN /\ e.conversation_id = tasks[k].conversation_id
                  /\ e.status = "done"
                  /\ e.message = SuccessMsg

\* A task has published once if it completed and never otherwise.
C4_OncePerTask ==
    \A k \in DOMAIN tasks :
        Cardinality(PublishedBy(k)) = IF tasks[k].pc = "done" THEN 1 ELSE 0

\* C4 amended: a triggered chat with a conversation id answers with the
\* processing message at once and schedules one task; when that task runs,
\* not before Delay has passed, and neither of its writes fails, it appends
\* the done message for that conversation and puts exactly one event for it
\* on the relay; a task one of whose writes fails puts none; none puts two.
C4_TriggeredChatPublishesOnceIfWritesSucceed ==
    [](C4_OncePerTask) /\ [][C4_ChatStep /\ C4_TaskStep]_vars

\* A triggered chat on an existing conversation whose task has completed: the
\* done message is stored and its one event is on the relay.
C4_Witness ==
    \E k \in DOMAIN tasks :
        /\ tasks[k].valid /\ tasks[k].pc = "done"
        /\ tasks[k].conversation_id \in DOMAIN conversations
        /\ \E i \in DOMAIN messages :
              /\ messages[i].conversation_id = tasks[k].conversation_id
              /\ messages[i].content = SuccessMsg
        /\ \E i \in DOMAIN messages : messages[i].content = Processing
        /\ Len(event_queue) = 1
        /\ event_queue[1].conversation_id = tasks[k].conversation_id

\* ---------------------------------------------------------------- C5
\* A failed task has published nothing.
C5_FailedPublishedNothing ==
    \A k \in DOMAIN tasks : tasks[k].pc = "failed" => PublishedBy(k) = {}

\* A failed task stays as it is; the step in which a task fails touches
\* neither the queue nor any response nor another task, and writes at most
\* the one row of its insert.
C5_FailStep ==
    \A k \in DOMAIN tasks :
        /\ tasks[k].pc = "failed" => tasks'[k] = tasks[k]
        /\ (tasks[k].pc = "sleeping" /\ tasks'[k].pc = "failed") =>
              /\ event_queue' = event_queue
              /\ published' = published
              /\ last' = NoCall
              /\ Len(messages') <= Len(messages) + 1
              /\ \A j \in DOMAIN tasks \ {k} : tasks'[j] = tasks[j]

\* C5: a task one of whose writes failed (the insert, or the updated_at
\* write) has published nothing, is not run again, and its failure reached
\* no response and no other task.
C5_FailureEndsTaskSilently ==
    [](C5_FailedPublishedNothing) /\ [][C5_FailStep]_vars

\* A task whose insert went through and whose updated_at write failed.
C5_Witness ==
    \E k \in DOMAIN tasks :
        /\ tasks[k].pc = "failed"
        /\ \E i \in DOMAIN messages :
              /\ messages[i].conversation_id = tasks[k].conversation_id
              /\ messages[i].content = SuccessMsg
        /\ event_queue = <<>>

\* ---------------------------------------------------------------- C7
\* What a step that ends in a delete response has done.
C7_DeleteStep ==
    last'.op = "delete" =>
        IF last'.conversation_id \in DOMAIN conversations
        THEN last'.status = 204
        ELSE /\ last'.status = 404
             /\ conversations' = conversations
             /\ messages' = messages
             /\ event_queue' = event_queue
             /\ tasks' = tasks

\* C7: a delete of an id that has no conversation answers 404 and leaves the
\* conversations, the messages, the tasks and the queue as they were (a
\* delete of an existing one answers 204).
C7_DeleteUnknownIsNotFound == [][C7_DeleteStep]_vars

\* A 404 from delete with rows in both tables.
C7_Witness ==
    /\ last.op = "delete" /\ last.status = 404
    /\ DOMAIN conversations # {}
    /\ messages # <<>>

\* ---------------------------------------------------------------- C8
\* C8: every stored message references a conversation that exists.
C8_EveryMessageHasItsConversation ==
    \A i \in DOMAIN messages :
        messages[i].conversation_id \in DOMAIN conversations

\* ---------------------------------------------------------------- C9
MessagesOf(msgs, c) == {i \in DOMAIN msgs : msgs[i].conversation_id = c}

\* updated_at >= created_at for every stored conversation.
C9_UpdatedNotBeforeCreated ==
    \A c \in DOMAIN conversations :
        conversations[c].updated_at >= conversations[c].created_at

\* updated_at grows strictly in every step that appends a message to the
\* conversation or updates it. Two writes at one clock reading are not held
\* against the claim: only steps that start with the clock past the stored
\* updated_at are looked at.
C9_StrictStep ==
    \A c \in DOMAIN conversations \cap DOMAIN conversations' :
        (/\ now > conversations[c].updated_at
         /\ \/ Cardinality(MessagesOf(messages', c)) >
                   Cardinality(MessagesOf(messages, c))
            \/ (last'.op = "update" /\ last'.status = 200
                  /\ last'.conversation_id = c))
        => conversations'[c].updated_at > conversations[c].updated_at

C9_MonotoneStep ==
    \A c \in DOMAIN conversations \cap DOMAIN conversations' :
        /\ conversations'[c].created_at = conversations[c].created_at
        /\ conversations'[c].updated_at >= conversations[c].updated_at
        /\ conversations'[c].updated_at # conversations[c].updated_at =>
              /\ conversations'[c].updated_at >= now
              /\ conversations'[c].updated_at <= now'
        /\ (last'.op = "update" /\ last'.status = 200
              /\ last'.conversation_id = c) =>
              conversations'[c].updated_at = now

Max(a, b) == IF a > b THEN a ELSE b

\* rows is the page offset .. offset+limit-1 of c's messages in ascending
\* created_at: rows of c only, each stored, none twice, ascending, as many as
\* those positions exist, the row at 0-based position p having at most p
\* messages of c created strictly before it and more than p created at or
\* before it.
C10_ListingOf(c, limit, offset, rows) ==
    LET mine   == MessagesOf(messages, c)
        n      == Cardinality(mine)
        before(t)   == Cardinality({i \in mine : messages[i].created_at < t})
        upTo(t)     == Cardinality({i \in mine : messages[i].created_at <= t})
    IN  /\ Len(rows) = Max(0, Min(limit, n - offset))
        /\ \A p \in DOMAIN rows :
              /\ rows[p].conversation_id = c
              /\ \E i \in mine : messages[i] = rows[p]
              /\ before(rows[p].created_at) <= offset + p - 1
              /\ upTo(rows[p].created_at) >= offset + p
        /\ \A p, q \in DOMAIN rows :
              p < q => /\ rows[p].created_at <= rows[q].created_at
                       /\ rows[p].id # rows[q].id

C11_PublishedFor(c) ==
    {i \in DOMAIN published : published[i].ev.conversation_id = c}

C11_ScheduledFor(c) == {k \in DOMAIN tasks : tasks[k].conversation_id = c}

C11_CompletedFor(c) == {k \in C11_ScheduledFor(c) : tasks[k].pc = "done"}

\* Every event on the queue was published by a task; every published event
\* names the conversation of the task that put it, and that task completed;
\* per conversation there are no more events than completed tasks and no
\* more completed tasks than scheduled ones.
C11_Counts ==
    /\ \A j \in DOMAIN event_queue :
          \E i \in DOMAIN published : published[i].ev = event_queue[j]
    /\ \A i \in DOMAIN published :
          /\ published[i].task \in DOMAIN tasks
          /\ tasks[published[i].task].pc = "done"
          /\ tasks[published[i].task].conversation_id =
                published[i].ev.conversation_id
    /\ \A c \in KnownIds \cup {NoneId} :
          /\ Cardinality(C11_PublishedFor(c)) <=
                Cardinality(C11_CompletedFor(c))
          /\ Cardinality(C11_CompletedFor(c)) <=
                Cardinality(C11_ScheduledFor(c))
    /\ C11_ScheduledFor(NoneId) = {}

\* The queue and the record of publications change only in the step in
\* which one task completes, and then by one event for that task's
\* conversation.
C11_PublishStep ==
    (published' # published \/ event_queue' # event_queue) =>
        /\ last' = NoCall
        /\ Len(published') = Len(published) + 1
        /\ SubSeq(published', 1, Len(published)) = published
        /\ LET p == published'[Len(published')]
           IN /\ p.task \in DOMAIN tasks
              /\ tasks[p.task].pc = "sleeping"
              /\ tasks'[p.task].pc = "done"
              /\ p.ev.conversation_id = tasks[p.task].conversation_id
              /\ event_queue' = Append(event_queue, p.ev)

\* The step in which a task completes has inserted one done message for the
\* task's conversation and has written a reading of the clock to updated_at
\* of that conversation (a write that matches no row changes none).
C11_CompleteStep ==
    \A k \in DOMAIN tasks :
        (tasks[k].pc = "sleeping" /\ tasks'[k].pc = "done") =>
            LET c == tasks[k].conversation_id
            IN /\ messages' = Append(messages, messages'[Len(messages')])
               /\ messages'[Len(messages')].conversation_id = c
               /\ messages'[Len(messages')].role = "assistant"
               /\ messages'[Len(messages')].content = SuccessMsg
               /\ IF c \in DOMAIN conversations
                  THEN /\ conversations'[c].updated_at >= now
                       /\ conversations' =
                            TouchConversation(conversations, c,
                                              conversations'[c].updated_at)
                  ELSE conversations' = conversations
               /\ Len(published') = Len(published) + 1

\* Tasks are never removed or given to another conversation, and one is
\* added only by a chat that carried the trigger and a conversation id, for
\* that id; any other chat leaves tasks, queue and publications alone.
C11_ScheduleStep ==
    /\ Len(tasks') >= Len(tasks)
    /\ \A k \in DOMAIN tasks :
          tasks'[k].conversation_id = tasks[k].conversation_id
    /\ Len(tasks') > Len(tasks) =>
          /\ Len(tasks') = Len(tasks) + 1
          /\ last'.op = "chat"
          /\ last'.message = Processing
          /\ last'.conversation_id # NoneId
          /\ tasks'[Len(tasks')].conversation_id = last'.conversation_id
    /\ (last'.op = "chat" /\ (last'.message # Processing
                              \/ last'.conversation_id = NoneId)) =>
          /\ tasks' = tasks
          /\ published' = published
          /\ event_queue' = event_queue

\* C11: events enter the queue only from the background task; an event for
\* conversation c is published only by a task for c that has inserted the
\* done message for c and written updated_at of c without error; so the
\* events ever published for c are at most the done messages inserted for c
\* by completed tasks and at most the chats that carried the trigger and
\* the id c; a chat without the trigger or without an id causes no publish.
C11_PublishOnlyAfterBothWrites ==
    [](C11_Counts)
    /\ [][C11_PublishStep /\ C11_CompleteStep /\ C11_ScheduleStep]_vars

\* Two triggered chats on different ids: the task of one completed and its
\* event is the only one published; the task of the other inserted its done
\* message, failed at the updated_at write and published nothing.
C11_Witness ==
    \E k1, k2 \in DOMAIN tasks :
        /\ tasks[k1].conversation_id # tasks[k2].conversation_id
        /\ tasks[k1].pc = "done" /\ tasks[k2].pc = "failed"
        /\ Len(published) = 1
        /\ published[1].ev.conversation_id = tasks[k1].conversation_id
        /\ \A k \in {k1, k2} : \E i \in DOMAIN messages :
              /\ messages[i].conversation_id = tasks[k].conversation_id
              /\ messages[i].content = SuccessMsg

====
